---- MODULE Spec2Model ----
(***************************************************************************)
(* The h5py build-configuration layer: the "configure" distutils command   *)
(* (setup_configure.py) and the build_ext replacement (setup_build.py).    *)
(*                                                                         *)
(* Persistent state: the pickle file h5config.pkl and the generated file   *)
(* config.pxi.  Per-process state: the command line, the environment and   *)
(* the one configure command object that distutils keeps per process and   *)
(* that h5py_build_ext.run fetches with get_command_obj('configure').      *)
(***************************************************************************)
EXTENDS Naturals, FiniteSets, Sequences, TLC

\* Number of setup.py processes a behaviour starts.
MaxInvocations == 2

\* Python's None, and an attribute that was never assigned (AttributeError).
None == "None"
Unset == "<unset>"

\* The six options of configure.user_options that are cached.
Settings ==
  {"hdf5", "hdf5_libdir", "hdf5_libname", "hdf5_includedir", "hdf5_version", "mpi"}

\* Strings a user can pass for a path-like option or HDF5_MPI; "" is what
\* `--hdf5=` or an exported-but-empty variable yields.
TextValues == {"", "a"}

\* Version strings that pass validate_version (three integer fields); the
\* installed library reports one of them.
VersionValues == {"1.8.4", "1.10.0"}

\* tuple(int(x) for x in s.split('.')): whether every field is an integer.
IntegerFields(s) == s \in VersionValues

SuppliedValues(s) == IF s = "hdf5_version" THEN VersionValues ELSE TextValues

\* autodetect_libdirs, autodetect_includedirs and autodetect_libname: a given
\* parameter gets precedence and comes back wrapped in a list, the install
\* directory hdf5 comes next, else the result of probing the system.  A list
\* is never equal to a string a user typed.
ListOf(v) ==
  CASE v = "" -> "['']"
    [] v = "a" -> "['a']"
    [] OTHER -> "[...]"

SubdirOf(v) ==
  CASE v = "" -> "['/sub']"
    [] v = "a" -> "['a/sub']"
    [] OTHER -> "[.../sub]"

Probed == "[probed]"

autodetect_dirs(given, hdf5_dir) ==
  IF given # None THEN ListOf(given)
  ELSE IF hdf5_dir # None THEN SubdirOf(hdf5_dir)
  ELSE Probed

autodetect_libname(given) == IF given # None THEN ListOf(given) ELSE Probed

\* autodetect_define_macros always returns a non-empty collection.
autodetect_define_macros == "[macros]"

\* The placeholder configure.run stores when autodetect_hdf5 raises.
Unknown == "???"

\* Python truthiness of the values that occur in the pickled dict.
Truthy(v) == v \notin {None, "", "False"}

PyBool(b) == IF b THEN "True" ELSE "False"

\* Python's `a or b`.
PyOr(a, b) == IF Truthy(a) THEN a ELSE b

NoOptions == [s \in Settings |-> None]

\* The settings dict: keys cmd_<s>, env_<s> and 'rebuild'; None = key absent.
EmptyDict == [cmd |-> NoOptions, env |-> NoOptions, rebuild |-> None]

VARIABLES
  focus,      \* the one option that the processes of a behaviour are given
              \* values for (the code treats the options alike in steps 1, 2)
  pkl,        \* content of h5config.pkl ({} when missing or unreadable)
  config_pxi, \* whether h5py/config.pxi exists
  inv,        \* setup.py processes started so far
  pc,         \* "none": no process; else what the process did last
  todo,       \* what the running process still has to run, in order
  cmdline,    \* options given to configure on this process's command line
  reset,      \* --reset given on this process's command line
  environ,    \* HDF5_* environment variables of this process
  self,       \* attributes of the process's configure command object
  nruns,      \* configure.run calls made on that object
  old,        \* h5config.pkl as it was when the last configure.run started
  resolved,   \* option values after step 2 of the last configure.run
  outcome,    \* what autodetect_hdf5 did in the last configure.run
  given,      \* per source and option, the value a user last gave (None
              \* after a --reset that did not give it again)
  built       \* the cached settings when h5py_build_ext.run last completed
              \* (a set: empty until a build completes)

vars ==
  <<focus, pkl, config_pxi, inv, pc, todo, cmdline, reset, environ, self,
    nruns, old, resolved, outcome, given, built>>

loadpickle == pkl

\* configure.initialize_options (hdf5_define_macros is not assigned there).
initialize_options ==
  [s \in Settings \cup {"rebuild_required", "hdf5_define_macros"} |->
     IF s \in Settings THEN None ELSE Unset]

\* configure.run step 1: a copy of oldsettings with every option given on the
\* command line (the object's attribute) or in the environment written over it.
Overlay(oldsettings, opt, env) ==
  [oldsettings EXCEPT
     !.cmd = [s \in Settings |-> IF opt[s] # None THEN opt[s] ELSE @[s]],
     !.env = [s \in Settings |-> IF env[s] # None THEN env[s] ELSE @[s]]]

\* any(loadpickle().values())
AnyValues(d) ==
  \/ \E s \in Settings : Truthy(d.cmd[s]) \/ Truthy(d.env[s])
  \/ Truthy(d.rebuild)

\* Mutant: the flag computed without comparing dct with oldsettings.
RebuildRequired_NoCompare(dct, oldsettings, rst, file) ==
  IF rst /\ AnyValues(file) THEN "True" ELSE PyOr(dct.rebuild, "False")

\* Mutant: the flag computed without the corner case for --reset.
RebuildRequired_NoCorner(dct, oldsettings, rst, file) ==
  PyOr(dct.rebuild, PyBool(dct # oldsettings))

\* The value assigned to self.rebuild_required.
RebuildRequired(dct, oldsettings, rst, file) ==
  IF rst /\ AnyValues(file)
    THEN "True"
    ELSE PyOr(dct.rebuild, PyBool(dct # oldsettings))

\* Mutant: the environment consulted before the cached command-line value.
Resolve_EnvFirst(attr, oldcmd, envval, oldenv) ==
  LET v1 == IF attr = None THEN envval ELSE attr
      v2 == IF v1 = None THEN oldcmd ELSE v1
  IN  IF v2 = None THEN oldenv ELSE v2

\* configure.run step 2 for one option: the attribute, then the cached
\* command-line value, then the environment, then the cached environment.
Resolve(attr, oldcmd, envval, oldenv) ==
  LET v1 == IF attr = None THEN oldcmd ELSE attr
      v2 == IF v1 = None THEN envval ELSE v1
  IN  IF v2 = None THEN oldenv ELSE v2

\* configure.run step 2 for all options.
Step2(obj, rst, env, file) ==
  LET oldsettings == IF rst THEN EmptyDict ELSE file
  IN  [s \in Settings |->
         Resolve(obj[s], oldsettings.cmd[s], env[s], oldsettings.env[s])]

\* Whether configure.run calls autodetect_hdf5.
NeedsAutodetect(opts) == opts["hdf5_version"] = None

\* What the call of autodetect_hdf5 can do: raise, or return with the version
\* the installed library reports; "skip" when it is not called.
Raises == "raise"
Skipped == "skip"

autodetect_hdf5(opts) ==
  IF NeedsAutodetect(opts) THEN {Raises} \cup VersionValues ELSE {Skipped}

\* The attributes after the autodetection block, for the outcome `out`.
Autodetected(attrs, out) ==
  IF out = Skipped THEN attrs
  ELSE IF out = Raises
    THEN [attrs EXCEPT !["hdf5_libdir"] = Unknown,
                       !["hdf5_includedir"] = Unknown,
                       !["hdf5_version"] = Unknown]
    ELSE [attrs EXCEPT
            !["hdf5_libdir"] = autodetect_dirs(attrs["hdf5_libdir"], attrs["hdf5"]),
            !["hdf5_includedir"] =
               autodetect_dirs(attrs["hdf5_includedir"], attrs["hdf5"]),
            !["hdf5_version"] = out,
            !["hdf5_libname"] = autodetect_libname(attrs["hdf5_libname"]),
            !["hdf5_define_macros"] = autodetect_define_macros]

\* configure.run on the object `obj`: what it saves, the values of step 2 and
\* the object's attributes when it returns.
RunResult(obj, rst, env, file, out) ==
  LET oldsettings == IF rst THEN EmptyDict ELSE file
      dct == Overlay(oldsettings, obj, env)
      rr == RebuildRequired(dct, oldsettings, rst, file)
      step2 == Step2(obj, rst, env, file)
      attrs == [a \in DOMAIN obj |->
                  IF a \in Settings THEN step2[a]
                  ELSE IF a = "rebuild_required" THEN rr
                  ELSE obj[a]]
  IN  [saved |-> [dct EXCEPT !.rebuild = rr],
       step2 |-> step2,
       attrs |-> Autodetected(attrs, out)]

\* configure.reset_rebuild
reset_rebuild(file) == [file EXCEPT !.rebuild = "False"]

\* The cached settings of a dict: everything but the rebuild flag.
CachedSettings(d) == [cmd |-> d.cmd, env |-> d.env]

\* Option assignments a process is started with: the option s given on the
\* command line, in the environment, in both or in neither.
OneOption(s, v) == [NoOptions EXCEPT ![s] = v]

Supplies(s) ==
  {<<OneOption(s, c), OneOption(s, e)>> :
     c \in SuppliedValues(s) \cup {None}, e \in SuppliedValues(s) \cup {None}}

\* Command sequences of one setup.py process.
CommandLines ==
  {<<"configure">>, <<"build_ext">>,
   <<"configure", "build_ext">>, <<"build_ext", "configure">>}

\* The value a user last gave for each option, per source.
Remember(g, cmd, env, rst) ==
  [cmd |-> [s \in Settings |->
              IF cmd[s] # None THEN cmd[s] ELSE IF rst THEN None ELSE g.cmd[s]],
   env |-> [s \in Settings |->
              IF env[s] # None THEN env[s] ELSE IF rst THEN None ELSE g.env[s]]]

Init ==
  /\ focus \in Settings
  /\ pkl = EmptyDict
  /\ config_pxi = FALSE
  /\ inv = 0
  /\ pc = "none"
  /\ todo = << >>
  /\ cmdline = NoOptions
  /\ reset = FALSE
  /\ environ = NoOptions
  /\ self = initialize_options
  /\ nruns = 0
  /\ old = EmptyDict
  /\ resolved = NoOptions
  /\ outcome = Skipped
  /\ given = [cmd |-> NoOptions, env |-> NoOptions]
  /\ built = {}

\* A setup.py process starts: distutils parses the command line, creates the
\* configure object and sets the given options on it.  The version strings
\* given are ones that finalize_options and EnvironmentOptions let through.
NewInvocation ==
  /\ pc = "none"
  /\ inv < MaxInvocations
  /\ \E sup \in Supplies(focus), r \in BOOLEAN, cmds \in CommandLines :
       /\ cmdline' = sup[1]
       /\ environ' = sup[2]
       /\ reset' = r
       /\ todo' = cmds
       /\ self' = [a \in DOMAIN initialize_options |->
                     IF a \in Settings /\ sup[1][a] # None THEN sup[1][a]
                     ELSE initialize_options[a]]
  /\ inv' = inv + 1
  /\ pc' = "started"
  /\ nruns' = 0
  /\ UNCHANGED <<focus, pkl, config_pxi, old, resolved, outcome, given, built>>

\* configure.run, called on the process's configure object.
configure_run ==
  /\ \E out \in autodetect_hdf5(Step2(self, reset, environ, loadpickle)) :
       LET r == RunResult(self, reset, environ, loadpickle, out)
       IN  /\ pkl' = r.saved
           /\ self' = r.attrs
           /\ resolved' = r.step2
           /\ outcome' = out
  /\ old' = loadpickle
  /\ nruns' = nruns + 1
  /\ given' = Remember(given, cmdline, environ, reset)
  /\ pc' = "ran"
  /\ UNCHANGED <<focus, config_pxi, inv, cmdline, reset, environ, built>>

\* distutils runs the configure command.
ConfigureCommand ==
  /\ pc # "none"
  /\ todo # << >>
  /\ Head(todo) = "configure"
  /\ configure_run
  /\ todo' = Tail(todo)

\* h5py_build_ext.run, first part: fetch the configure object and run it.
build_ext_configure ==
  /\ pc # "none"
  /\ todo # << >>
  /\ Head(todo) = "build_ext"
  /\ configure_run
  /\ todo' = <<"compile">> \o Tail(todo)

\* h5py_build_ext.run, the rest: config.pxi, the extensions, cythonize, the C
\* build, then reset_rebuild.  Whatever raises ends the process and leaves
\* the pickle file as configure.run wrote it.
build_ext_compile ==
  /\ pc # "none"
  /\ todo # << >>
  /\ Head(todo) = "compile"
  /\ \E compiles \in BOOLEAN :
       LET rewrite == ~config_pxi \/ Truthy(self["rebuild_required"])
           formats == IntegerFields(self["hdf5_version"])
           \* _make_extensions reads config.hdf5_define_macros
           extensions == self["hdf5_define_macros"] # Unset
           done == (rewrite => formats) /\ extensions /\ compiles
       IN  /\ config_pxi' = (config_pxi \/ rewrite)
           /\ pkl' = IF done THEN reset_rebuild(loadpickle) ELSE pkl
           /\ built' = IF done THEN {CachedSettings(loadpickle)} ELSE built
           /\ todo' = IF done THEN Tail(todo) ELSE << >>
  /\ pc' = "compiled"
  /\ UNCHANGED <<focus, inv, cmdline, reset, environ, self, nruns, old,
                 resolved, outcome, given>>

\* The process ends (its commands ran, or one raised): the command object
\* and the process's options are gone, the files stay.
Exit ==
  /\ pc # "none"
  /\ todo = << >>
  /\ pc' = "none"
  /\ cmdline' = NoOptions
  /\ environ' = NoOptions
  /\ reset' = FALSE
  /\ self' = initialize_options
  /\ nruns' = 0
  /\ old' = EmptyDict
  /\ outcome' = Skipped
  /\ UNCHANGED <<focus, pkl, config_pxi, inv, todo, resolved, given, built>>

Next ==
  \/ NewInvocation
  \/ ConfigureCommand
  \/ build_ext_configure
  \/ build_ext_compile
  \/ Exit

Spec == Init /\ [][Next]_vars

(***************************************************************************)
(* The claims.  "A run" is a state with pc = "ran": configure.run has just *)
(* returned; old is the pickle file it loaded, cmdline and environ are     *)
(* what the process was started with.                                      *)
(***************************************************************************)

\* The first element of a sequence of sources that is set, None if none is.
FirstSet(sources) ==
  IF \A i \in DOMAIN sources : sources[i] = None
    THEN None
    ELSE sources[CHOOSE i \in DOMAIN sources :
                   /\ sources[i] # None
                   /\ \A j \in DOMAIN sources : j < i => sources[j] = None]

\* The values this process supplies, written over a cached mapping.
Supplied(d) ==
  [d EXCEPT
     !.cmd = [s \in Settings |-> IF cmdline[s] = None THEN @[s] ELSE cmdline[s]],
     !.env = [s \in Settings |-> IF environ[s] = None THEN @[s] ELSE environ[s]]]

\* C1: in a configure.run without --reset, each of the six settings
\* resolves, before autodetection, to the first value that is set among the
\* current command-line value, the cached cmd_ value, the current
\* environment value and the cached env_ value.
C1_PriorityOrder ==
  (pc = "ran" /\ ~reset) =>
    \A s \in Settings :
      resolved[s] = FirstSet(<<cmdline[s], old.cmd[s], environ[s], old.env[s]>>)

\* C2: in every configure.run, if the values supplied in this run, laid over
\* the previously cached mapping, give a mapping that differs from it, then
\* rebuild_required is true after the run and true is persisted under
\* 'rebuild'.
C2_ChangeForcesRebuild ==
  (pc = "ran" /\ Supplied(old) # old) =>
    /\ self["rebuild_required"] = "True"
    /\ pkl.rebuild = "True"

\* C2 witness: a run whose command line changed a cached value, with the
\* flag raised and persisted.
C2_Witness ==
  /\ pc = "ran"
  /\ inv = 2
  /\ \E s \in Settings : cmdline[s] # None /\ old.cmd[s] # None
                         /\ cmdline[s] # old.cmd[s]
  /\ old.rebuild = "False"
  /\ self["rebuild_required"] = "True"
  /\ pkl.rebuild = "True"

\* C3: the rebuild flag is sticky.  From a state where true is persisted,
\* a configure.run (with or without --reset, whatever it is given) reports
\* rebuild_required true and persists true again, and the only step that
\* leaves the persisted flag other than true is the reset_rebuild() at the
\* end of a completed h5py_build_ext.run.
C3_StickyFlag ==
  [][pkl.rebuild = "True" =>
       /\ pc' = "ran" => (self'["rebuild_required"] = "True" /\ pkl'.rebuild = "True")
       /\ pkl'.rebuild # "True" =>
            (pc = "ran" /\ pc' = "compiled" /\ pkl' = reset_rebuild(pkl)
             /\ built' = {CachedSettings(pkl)})]_vars

\* C3 witness: a --reset run that supplied nothing, over a cache whose flag
\* was true, kept the flag true.
C3_Witness ==
  /\ pc = "ran"
  /\ reset
  /\ cmdline = NoOptions
  /\ environ = NoOptions
  /\ old.rebuild = "True"
  /\ \A s \in Settings : old.cmd[s] = None /\ old.env[s] = None
  /\ pkl.rebuild = "True"
  /\ self["rebuild_required"] = "True"

\* C4: after any sequence of configure runs and build attempts, whenever the
\* cached cmd_/env_ entries differ from what they were when a build last
\* completed, the persisted rebuild flag is true.
C4_ChangedSinceBuildIsFlagged ==
  (built # {} /\ CachedSettings(pkl) \notin built) => pkl.rebuild = "True"

\* C5: a setting given on the command line in one run stays the resolved
\* value in every later run without --reset that does not give it on the
\* command line again, whatever the environment holds; a value given only
\* through the environment stays the resolved value in later runs that give
\* nothing for the setting, provided no command-line value is cached for it.
C5_SuppliedValuePersists ==
  (pc = "ran" /\ ~reset) =>
    \A s \in Settings :
      /\ (cmdline[s] = None /\ given.cmd[s] # None) => resolved[s] = given.cmd[s]
      /\ (cmdline[s] = None /\ environ[s] = None /\ old.cmd[s] = None
          /\ given.env[s] # None) => resolved[s] = given.env[s]

\* The settings autodetect_hdf5 can fill in.
Detectable == {"hdf5_libdir", "hdf5_includedir", "hdf5_libname", "hdf5_version"}

\* C6: after configure.run (autodetect_hdf5 not having raised), every
\* setting among library directory, include directory, library name and
\* version that the command line, the environment and the cache left unset
\* is filled in by autodetection, whichever other settings were supplied.
C6_UnsetIsAutodetected ==
  (pc = "ran" /\ outcome # Raises) =>
    \A s \in Detectable :
      LET oldsettings == IF reset THEN EmptyDict ELSE old
      IN  FirstSet(<<cmdline[s], oldsettings.cmd[s], environ[s],
                     oldsettings.env[s]>>) = None
            => self[s] \notin {None, Unknown}

C8_ResetDiscardsCache ==
  (pc = "ran" /\ reset) =>
    /\ \A s \in Settings : resolved[s] = FirstSet(<<cmdline[s], environ[s]>>)
    /\ CachedSettings(pkl) = [cmd |-> cmdline, env |-> environ]

\* Whether a dict holds a cached setting or a true rebuild flag.
HeldSomething(d) ==
  \/ d.rebuild = "True"
  \/ \E s \in Settings : d.cmd[s] # None \/ d.env[s] # None

\* C9, for the first configure.run of a process: a --reset run that discards
\* a cache holding a cached setting or a true rebuild flag requires a
\* rebuild, and a --reset run that supplies nothing over a cache that is
\* empty or holds only rebuild = false does not.
C9_ResetRebuildsIffCacheHeldSomething ==
  (pc = "ran" /\ reset /\ nruns = 1) =>
    /\ HeldSomething(old) => self["rebuild_required"] = "True"
    /\ (cmdline = NoOptions /\ environ = NoOptions /\ ~HeldSomething(old))
         => self["rebuild_required"] # "True"

====
